---- MODULE Spec2Model ----
(***************************************************************************)
(* dingo/gw/waveform_dataset.py: the SVDBasis object (a reduced basis V,   *)
(* Vh, n) and the WaveformDataset object (a table of parameters and        *)
(* waveform polarizations served through __getitem__).                     *)
(*                                                                         *)
(* Arrays are records [kind, shape, dtype, a]; a complex number is the     *)
(* pair <<re, im>> of integers.  Python's None is the record None and a    *)
(* Python int is boxed (PyInt(k)) so that a field holding either can be      *)
(* compared.  The result of a call is Return(value) or Raise(error), and   *)
(* an operator whose result depends on the installed library returns the   *)
(* set of its possible results.                                            *)
(***************************************************************************)
EXTENDS Integers, Sequences, FiniteSets, TLC

VARIABLES basis,      \* the SVDBasis object: [V, Vh, n]
          wfd,        \* the WaveformDataset object, NoObject before __init__
          last_file,  \* the dataset file of the last load that ran to its end
          call,       \* the call made by the last step
          ret         \* how that call ended: Return(value) or Raise(error)

vars == <<basis, wfd, last_file, call, ret>>

\* Largest matrix dimension (rows of a training matrix, physical dimension, rank).
MaxDim == 2
\* Largest number of rows of a table of a dataset file.
MaxRows == 2

-----------------------------------------------------------------------------
(* Python values *)

None == [kind |-> "None"]
PyInt(k) == [kind |-> "int", val |-> k]
Return(v) == [kind |-> "return", value |-> v]
Raise(e) == [kind |-> "raise", error |-> e]
NoCall == [kind |-> "none"]
NoObject == [kind |-> "NoObject"]

Min(a, b) == IF a <= b THEN a ELSE b

(* complex arithmetic *)
CAdd(x, y) == <<x[1] + y[1], x[2] + y[2]>>
CMul(x, y) == <<x[1] * y[1] - x[2] * y[2], x[1] * y[2] + x[2] * y[1]>>
Conj(x) == <<x[1], 0 - x[2]>>

(* numpy arrays *)
Dtypes == {"float32", "float64", "complex64", "complex128"}
IsComplex(dtype) == dtype \in {"complex64", "complex128"}
IsDouble(dtype) == dtype \in {"float64", "complex128"}

\* numpy's result type of a product of two arrays
Promote(d1, d2) ==
    IF IsComplex(d1) \/ IsComplex(d2)
    THEN (IF IsDouble(d1) \/ IsDouble(d2) THEN "complex128" ELSE "complex64")
    ELSE (IF IsDouble(d1) \/ IsDouble(d2) THEN "float64" ELSE "float32")

ndarray(shape, dtype, a) ==
    [kind |-> "ndarray", shape |-> shape, dtype |-> dtype, a |-> a]

\* x.astype(dtype)
astype(x, dtype) == [x EXCEPT !.dtype = dtype]

\* x.T.conj(): the axes reversed (a 1-D array is its own transpose), every
\* entry conjugated
TConj(x) ==
    IF Len(x.shape) = 2
    THEN ndarray(<<x.shape[2], x.shape[1]>>, x.dtype,
                 [i \in 1..x.shape[2] |-> [j \in 1..x.shape[1] |-> Conj(x.a[j][i])]])
    ELSE ndarray(x.shape, x.dtype, [i \in 1..x.shape[1] |-> Conj(x.a[i])])

\* x[:, :k]
SliceCols(x, k) ==
    LET c == Min(k, x.shape[2])
    IN  ndarray(<<x.shape[1], c>>, x.dtype,
                [i \in 1..x.shape[1] |-> [j \in 1..c |-> x.a[i][j]]])

\* x[:k, :]
SliceRows(x, k) ==
    LET r == Min(k, x.shape[1])
    IN  ndarray(<<r, x.shape[2]>>, x.dtype,
                [i \in 1..r |-> [j \in 1..x.shape[2] |-> x.a[i][j]]])

\* len(x)
len(x) == x.shape[1]

RECURSIVE Dot(_, _, _)
\* sum over k in 1..n of u[k] * w[k]
Dot(u, w, n) ==
    IF n = 0 THEN <<0, 0>> ELSE CAdd(Dot(u, w, n - 1), CMul(u[n], w[n]))

\* What ndarray @ None raises depends on the numpy build.
NoneOperandErrors == {"TypeError", "ValueError"}

\* x @ y for a 1-D array x: the set of possible results
matmul(x, y) ==
    IF y = None THEN {Raise(e) : e \in NoneOperandErrors}
    ELSE IF x.shape[1] # y.shape[1] THEN {Raise("ValueError")}
    ELSE IF Len(y.shape) = 2
    THEN {Return(ndarray(<<y.shape[2]>>, Promote(x.dtype, y.dtype),
                 [j \in 1..y.shape[2] |->
                     Dot(x.a, [k \in 1..y.shape[1] |-> y.a[k][j]], y.shape[1])]))}
    ELSE {Return(ndarray(<<>>, Promote(x.dtype, y.dtype),
                 Dot(x.a, y.a, y.shape[1])))}

-----------------------------------------------------------------------------
(* The SVD routines of the libraries.  A training matrix is identified by  *)
(* its shape, its dtype and a tag standing for its content; the right      *)
(* singular vectors a routine returns for it are not computed here: they   *)
(* are the matrix SingularVectors gives for the tag, one matrix per        *)
(* content, with non-real entries only where the data are complex.         *)

Contents == {"A", "B"}

TrainingData ==
    [kind : {"ndarray"}, shape : (1..MaxDim) \X (1..MaxDim), dtype : Dtypes,
     content : Contents]

SingularEntry(content, i, j) ==
    IF content = "A"
    THEN <<IF i = j THEN 1 ELSE 0, 0>>
    ELSE <<(i + j) % 2, IF i = j THEN 1 ELSE 0>>

\* the k leading right singular vectors as the rows of a k x cols matrix
SingularVectors(training_data, k) ==
    ndarray(<<k, training_data.shape[2]>>, training_data.dtype,
            [i \in 1..k |-> [j \in 1..training_data.shape[2] |->
                LET e == SingularEntry(training_data.content, i, j)
                IN  IF IsComplex(training_data.dtype) THEN e ELSE <<e[1], 0>>]])

\* sklearn's randomized_svd(M, n_components): Vh. The range finder's QR is
\* economic, so no more than min(M.shape) vectors come back.
randomized_svd(training_data, n) ==
    SingularVectors(training_data,
                    Min(n, Min(training_data.shape[1], training_data.shape[2])))

\* scipy.linalg.svd(M, full_matrices=False): Vh, of min(M.shape) rows, in
\* the precision of M
scipy_linalg_svd(training_data) ==
    SingularVectors(training_data,
                    Min(training_data.shape[1], training_data.shape[2]))

-----------------------------------------------------------------------------
(* class SVDBasis.  Each method is an operator of the object before the    *)
(* call and the arguments, giving the object after it and the result.      *)

SVDBasis_init == [V |-> None, Vh |-> None, n |-> None]

Methods == {"random", "scipy", "bogus"}

generate_basis_random(self, training_data, n) ==
    LET n1 == IF n = 0
              THEN Min(training_data.shape[1], training_data.shape[2])
              ELSE n
        Vh == astype(randomized_svd(training_data, n1), "complex64")
    IN  [self |-> [V |-> TConj(Vh), Vh |-> Vh, n |-> PyInt(n1)],
         ret |-> Return(None)]

generate_basis_scipy(self, training_data, n) ==
    LET Vh == scipy_linalg_svd(training_data)
        V == TConj(Vh)
        V1 == IF (n = 0) \/ (n > len(V)) THEN V ELSE SliceCols(V, n)
        Vh1 == IF (n = 0) \/ (n > len(V)) THEN Vh ELSE SliceRows(Vh, n)
    IN  [self |-> [V |-> V1, Vh |-> Vh1, n |-> PyInt(len(Vh1))],
         ret |-> Return(None)]

\* generate_basis storing n before it looks at the method
generate_basis_stores_n_first(self, training_data, n, method) ==
    IF method = "random" THEN generate_basis_random(self, training_data, n)
    ELSE IF method = "scipy" THEN generate_basis_scipy(self, training_data, n)
    ELSE [self |-> [self EXCEPT !.n = PyInt(n)], ret |-> Raise("ValueError")]

generate_basis(self, training_data, n, method) ==
    IF method = "random" THEN generate_basis_random(self, training_data, n)
    ELSE IF method = "scipy" THEN generate_basis_scipy(self, training_data, n)
    ELSE [self |-> self, ret |-> Raise("ValueError")]

\* coefficients @ self.Vh
basis_coefficients_to_fseries(self, coefficients) == matmul(coefficients, self.Vh)

\* fseries @ self.V
fseries_to_basis_coefficients(self, fseries) == matmul(fseries, self.V)

(* .npy files, named by what they hold: no file at all, a 1-D array of   *)
(* `rows` entries, or a rows x cols matrix                                  *)
NpyFiles ==
    [holds : {"nothing"}, rows : {1}, cols : {1}, content : {"A"}]
    \cup [holds : {"vector"}, rows : 1..MaxDim, cols : {1}, content : {"B"}]
    \cup [holds : {"matrix"}, rows : 1..MaxDim, cols : 1..MaxDim, content : Contents]

\* np.load(filename)
np_load(filename) ==
    IF filename.holds = "nothing" THEN Raise("FileNotFoundError")
    ELSE IF filename.holds = "vector"
    THEN Return(ndarray(<<filename.rows>>, "complex64",
                        [i \in 1..filename.rows |-> SingularEntry(filename.content, i, i)]))
    ELSE Return(ndarray(<<filename.rows, filename.cols>>, "complex64",
                        [i \in 1..filename.rows |-> [j \in 1..filename.cols |->
                            SingularEntry(filename.content, i, j)]]))

from_file(self, filename) ==
    LET loaded == np_load(filename)
    IN  IF loaded.kind = "raise" THEN [self |-> self, ret |-> loaded]
        ELSE LET s1 == [self EXCEPT !.V = loaded.value]
                 s2 == [s1 EXCEPT !.Vh = TConj(s1.V)]
             IN  IF Len(s2.V.shape) < 2
                 THEN [self |-> s2, ret |-> Raise("IndexError")]
                 ELSE [self |-> [s2 EXCEPT !.n = PyInt(s2.V.shape[2])],
                       ret |-> Return(None)]

\* a frequency series, or a vector of coefficients, of length k
Series(k) ==
    ndarray(<<k>>, "complex128", [i \in 1..k |-> <<i, i - 1>>])


-----------------------------------------------------------------------------
(* Dataset files (HDF5), named by what they hold: the row counts of the    *)
(* parameters array and of the two polarization arrays, the length of a    *)
(* waveform vector, and rb_matrix_V (dim x rank; rank 0: the file has no   *)
(* such entry).                                                            *)

H5Files ==
    [nparams : 1..MaxRows, nplus : 1..MaxRows, ncross : 1..MaxRows,
     dim : 1..MaxDim, rank : {0}, content : {"A"}]
    \cup [nparams : 1..MaxRows, nplus : 1..MaxRows, ncross : 1..MaxRows,
           dim : 1..MaxDim, rank : 1..MaxDim, content : Contents]

\* fp['parameters'][:]: row i of the parameters array
ParameterRow(i) == [mass_1 |-> 30 + i, mass_2 |-> 25]

\* fp['waveform_polarizations'][k][:]: row i of polarization k
PolarizationRow(k, i, dim) ==
    ndarray(<<dim>>, "complex128",
            [j \in 1..dim |-> IF k = "h_plus" THEN <<i + 1, j - 1>> ELSE <<j - 1, i + 1>>])

\* 'rb_matrix_V' in fp.keys()
has_rb_matrix_V(filename) == filename.rank > 0

\* fp['rb_matrix_V'][:]
rb_matrix_V(filename) ==
    ndarray(<<filename.dim, filename.rank>>, "complex64",
            [i \in 1..filename.dim |-> [j \in 1..filename.rank |->
                SingularEntry(filename.content, j, i)]])

\* ast.literal_eval(fp.attrs['settings'])
settings(filename) == [domain_settings |-> [type |-> "uFD", len |-> filename.dim]]

\* dingo.gw.domains.build_domain
build_domain(domain_settings) == [kind |-> "Domain", of |-> domain_settings]

-----------------------------------------------------------------------------
(* class WaveformDataset.  The object is a record of its attributes        *)
(* (self.__dict__); _Vh is the attribute Vh, and so on.  A DataFrame is    *)
(* the sequence of its rows.                                               *)

Transforms == {None, [kind |-> "transform", name |-> "t"]}

\* self.transform(data)
apply_transform(transform, data) == [transformed_by |-> transform.name, data |-> data]

SetAttr(self, name, value) == (name :> value) @@ self
HasAttr(self, name) == name \in DOMAIN self

load(self, filename) ==
    LET s1 == SetAttr(self, "parameter_samples",
                      [i \in 1..filename.nparams |-> ParameterRow(i - 1)])
    IN  IF filename.nplus # filename.ncross
        THEN \* pd.DataFrame of columns of different lengths
             [self |-> s1, ret |-> Raise("ValueError")]
        ELSE
        LET s2 == SetAttr(s1, "waveform_polarizations",
                      [i \in 1..filename.nplus |->
                          [h_plus |-> PolarizationRow("h_plus", i - 1, filename.dim),
                           h_cross |-> PolarizationRow("h_cross", i - 1, filename.dim)]])
            s3 == IF has_rb_matrix_V(filename)
                  THEN SetAttr(s2, "Vh", TConj(rb_matrix_V(filename)))
                  ELSE s2
            s4 == SetAttr(s3, "data_settings", settings(filename))
            s5 == SetAttr(s4, "domain", build_domain(s4.data_settings.domain_settings))
        IN  [self |-> s5, ret |-> Return(None)]

WaveformDataset_init(dataset_file, transform) ==
    LET s1 == [kind |-> "WaveformDataset", transform |-> transform]
        s2 == SetAttr(s1, "Vh", None)
        loaded == load(s2, dataset_file)
    IN  IF loaded.ret.kind = "raise"
        THEN [self |-> NoObject, ret |-> loaded.ret]
        ELSE loaded

\* len(self)
WaveformDataset_len(self) == Len(self.parameter_samples)

\* frame.iloc[idx] is defined for -len(frame) <= idx < len(frame)
iloc_defined(frame, idx) == (0 - Len(frame) <= idx) /\ (idx < Len(frame))
iloc(frame, idx) == IF idx >= 0 THEN frame[idx + 1] ELSE frame[Len(frame) + idx + 1]

\* the last lines of __getitem__: the transform, then return
getitem_finish(self, data) ==
    IF self.transform # None
    THEN Return(apply_transform(self.transform, data))
    ELSE Return(data)

\* self[idx]: the set of possible results
getitem(self, idx) ==
    IF ~iloc_defined(self.parameter_samples, idx) THEN {Raise("IndexError")}
    ELSE IF ~iloc_defined(self.waveform_polarizations, idx) THEN {Raise("IndexError")}
    ELSE
    LET parameters == iloc(self.parameter_samples, idx)
        waveform_polarizations == iloc(self.waveform_polarizations, idx)
    IN  IF HasAttr(self, "Vh")
        THEN LET plus == matmul(waveform_polarizations.h_plus, self.Vh)
             IN  UNION { IF p.kind = "raise" THEN {p}
                         ELSE { IF c.kind = "raise" THEN c
                                ELSE getitem_finish(self,
                                        [parameters |-> parameters,
                                         waveform |-> [h_plus |-> p.value,
                                                       h_cross |-> c.value]])
                                : c \in matmul(waveform_polarizations.h_cross, self.Vh) }
                         : p \in plus }
        ELSE {getitem_finish(self, [parameters |-> parameters,
                                    waveform |-> waveform_polarizations])}

-----------------------------------------------------------------------------
(* The state machine: one action per call. *)

NoFile == [nparams |-> 0, nplus |-> 0, ncross |-> 0, dim |-> 0, rank |-> 0,
           content |-> "A"]

Init ==
    /\ basis = SVDBasis_init
    /\ wfd = NoObject
    /\ last_file = NoFile
    /\ call = [op |-> "none"]
    /\ ret = NoCall

GenerateBasis ==
    \E training_data \in TrainingData, n \in 0..MaxDim, method \in Methods :
        LET r == generate_basis(basis, training_data, n, method)
        IN  /\ basis' = r.self
            /\ ret' = r.ret
            /\ call' = [op |-> "generate_basis", n |-> n, method |-> method]
            /\ UNCHANGED <<wfd, last_file>>

Project ==
    \E k \in 1..MaxDim :
        \E r \in fseries_to_basis_coefficients(basis, Series(k)) :
            /\ ret' = r
            /\ call' = [op |-> "fseries_to_basis_coefficients", fseries |-> Series(k)]
            /\ UNCHANGED <<basis, wfd, last_file>>

Reconstruct ==
    \E k \in 1..MaxDim :
        \E r \in basis_coefficients_to_fseries(basis, Series(k)) :
            /\ ret' = r
            /\ call' = [op |-> "basis_coefficients_to_fseries", coefficients |-> Series(k)]
            /\ UNCHANGED <<basis, wfd, last_file>>

FromFile ==
    \E filename \in NpyFiles :
        LET r == from_file(basis, filename)
        IN  /\ basis' = r.self
            /\ ret' = r.ret
            /\ call' = [op |-> "from_file", filename |-> filename]
            /\ UNCHANGED <<wfd, last_file>>

Construct ==
    /\ wfd = NoObject
    /\ \E dataset_file \in H5Files, transform \in Transforms :
        LET r == WaveformDataset_init(dataset_file, transform)
        IN  /\ wfd' = r.self
            /\ ret' = r.ret
            /\ last_file' = IF r.ret.kind = "return" THEN dataset_file ELSE last_file
            /\ call' = [op |-> "init"]
            /\ UNCHANGED basis

Load ==
    /\ wfd # NoObject
    /\ \E filename \in H5Files :
        LET r == load(wfd, filename)
        IN  /\ wfd' = r.self
            /\ ret' = r.ret
            /\ last_file' = IF r.ret.kind = "return" THEN filename ELSE last_file
            /\ call' = [op |-> "load"]
            /\ UNCHANGED basis

GetItem ==
    /\ wfd # NoObject
    /\ \E idx \in (0 - MaxRows - 1)..(MaxRows + 1) :
        \E r \in getitem(wfd, idx) :
            /\ ret' = r
            /\ call' = [op |-> "getitem", idx |-> idx]
            /\ UNCHANGED <<basis, wfd, last_file>>

Length ==
    /\ wfd # NoObject
    /\ ret' = Return(PyInt(WaveformDataset_len(wfd)))
    /\ call' = [op |-> "len"]
    /\ UNCHANGED <<basis, wfd, last_file>>

NextBasis == GenerateBasis \/ Project \/ Reconstruct \/ FromFile

NextDataset == Construct \/ Load \/ GetItem \/ Length

\* the SVDBasis object alone
SpecBasis == Init /\ [][NextBasis]_vars

\* the WaveformDataset object alone
SpecDataset == Init /\ [][NextDataset]_vars

Next == NextBasis \/ NextDataset

Spec == Init /\ [][Next]_vars


-----------------------------------------------------------------------------
(* Properties of the SVDBasis object, under SpecBasis. *)

\* the precision generate_basis casts to (np.complex64)
BasisDtype == "complex64"

SupportedMethods == {"random", "scipy"}

\* C2: after every successful generate_basis or from_file, Vh is the
\* conjugate transpose of V and n is the number of columns of V and the
\* number of rows of Vh.
C2_BasisInvariant ==
    (call.op \in {"generate_basis", "from_file"} /\ ret.kind = "return")
        => /\ basis.Vh = TConj(basis.V)
           /\ basis.n = PyInt(basis.V.shape[2])
           /\ basis.n = PyInt(basis.Vh.shape[1])

\* C4: project and reconstruct on a basis object as __init__ left it raise
\* the dedicated BasisNotInitialized error (and so return nothing), for
\* every input.
C4_BasisNotInitialized ==
    (/\ call.op \in {"fseries_to_basis_coefficients", "basis_coefficients_to_fseries"}
     /\ basis = SVDBasis_init)
        => ret = Raise("BasisNotInitialized")

\* C5: a generate_basis call with a method other than 'random' and 'scipy'
\* raises the unsupported-method error (ValueError) and leaves V, Vh and n
\* as they were.
C5_UnsupportedMethod ==
    [][(call'.op = "generate_basis" /\ call'.method \notin SupportedMethods)
          => (ret' = Raise("ValueError") /\ basis' = basis)]_vars

\* C5's case: the unsupported method was asked of a populated basis
C5_Witness ==
    /\ call.op = "generate_basis"
    /\ call.method \notin SupportedMethods
    /\ ret = Raise("ValueError")
    /\ basis.V # None
    /\ basis.n # None

\* C6: after every successful generate_basis, V and Vh are stored in the one
\* fixed complex precision, whatever the method and the dtype of the
\* training matrix.
C6_OnePrecision ==
    (call.op = "generate_basis" /\ ret.kind = "return")
        => (basis.V.dtype = BasisDtype /\ basis.Vh.dtype = BasisDtype)

\* C10: a from_file call that fails leaves V, Vh and n as they were.
C10_FailedLoadLeavesBasis ==
    [][(call'.op = "from_file" /\ ret'.kind = "raise") => basis' = basis]_vars

-----------------------------------------------------------------------------
(* Properties of the WaveformDataset object, under SpecDataset. *)

\* 0 <= idx < len(self)
InBounds(self, idx) == (0 <= idx) /\ (idx < WaveformDataset_len(self))

\* row idx of both tables, as they are stored
RawRecord(self, idx) ==
    [parameters |-> self.parameter_samples[idx + 1],
     waveform |-> self.waveform_polarizations[idx + 1]]

\* the two tables have as many rows
SameRowCounts(self) ==
    Len(self.parameter_samples) = Len(self.waveform_polarizations)

\* the record a get returned, before the transform
Sample(self, r) == IF self.transform # None THEN r.value.data ELSE r.value

\* the basis object holding the matrix V of a dataset file
LegacyBasis(filename) ==
    [V |-> rb_matrix_V(filename), Vh |-> TConj(rb_matrix_V(filename)),
     n |-> PyInt(filename.rank)]

\* C1: for a dataset whose file has no rb_matrix_V and that has no
\* transform, get(index) returns row index of both tables, unmodified, for
\* every valid index. (Stated where the two tables have as many rows.)
C1_RawWithoutBasis ==
    (/\ call.op = "getitem"
     /\ last_file.rank = 0
     /\ wfd.Vh = None
     /\ wfd.transform = None
     /\ SameRowCounts(wfd)
     /\ InBounds(wfd, call.idx))
        => ret = Return(RawRecord(wfd, call.idx))

\* C3: for a dataset whose file holds rb_matrix_V, get(index) returns
\* h_plus and h_cross replaced by what fseries_to_basis_coefficients gives
\* for that V and the raw vector. (Stated without a transform, where the two
\* tables have as many rows.)
C3_ProjectsThroughV ==
    (/\ call.op = "getitem"
     /\ last_file.rank > 0
     /\ wfd.Vh = TConj(rb_matrix_V(last_file))
     /\ wfd.transform = None
     /\ SameRowCounts(wfd)
     /\ InBounds(wfd, call.idx))
        => LET raw == RawRecord(wfd, call.idx)
               b == LegacyBasis(last_file)
           IN  \E p \in fseries_to_basis_coefficients(b, raw.waveform.h_plus),
                  c \in fseries_to_basis_coefficients(b, raw.waveform.h_cross) :
                   /\ p.kind = "return"
                   /\ c.kind = "return"
                   /\ ret = Return([parameters |-> raw.parameters,
                                    waveform |-> [h_plus |-> p.value,
                                                  h_cross |-> c.value]])

\* C7: a load of a file whose parameters and polarization arrays differ in
\* row count fails (so after a load that succeeded the tables have as many
\* rows), and len() is the row count of both tables.
C7_RowCountsChecked ==
    /\ (call.op \in {"init", "load"} /\ ret.kind = "return")
           => last_file.nparams = last_file.nplus
    /\ (call.op = "len")
           => /\ ret = Return(PyInt(Len(wfd.parameter_samples)))
              /\ ret = Return(PyInt(Len(wfd.waveform_polarizations)))

\* C8: get(index) raises the index error for every index outside
\* 0 <= index < len(), and for every index inside returns the parameters of
\* row index with the waveform of row index (raw or projected).
C8_BoundsChecked ==
    (call.op = "getitem")
        => IF InBounds(wfd, call.idx)
           THEN /\ ret.kind = "return"
                /\ call.idx < Len(wfd.waveform_polarizations)
                /\ LET raw == RawRecord(wfd, call.idx)
                       got == Sample(wfd, ret)
                   IN  /\ got.parameters = raw.parameters
                       /\ \/ got.waveform = raw.waveform
                          \/ /\ Return(got.waveform.h_plus)
                                    \in matmul(raw.waveform.h_plus, wfd.Vh)
                             /\ Return(got.waveform.h_cross)
                                    \in matmul(raw.waveform.h_cross, wfd.Vh)
           ELSE ret = Raise("IndexError")

\* C9: what a get returns depends on the last loaded file only: the raw row
\* if that file has no rb_matrix_V, the row multiplied by that file's matrix
\* if it has one.
C9_BasisOfLastFile ==
    (call.op = "getitem" /\ ret.kind = "return")
        => LET raw == iloc(wfd.waveform_polarizations, call.idx)
               got == Sample(wfd, ret).waveform
           IN  IF last_file.rank = 0
               THEN got = raw
               ELSE /\ Return(got.h_plus)
                        \in matmul(raw.h_plus, TConj(rb_matrix_V(last_file)))
                    /\ Return(got.h_cross)
                        \in matmul(raw.h_cross, TConj(rb_matrix_V(last_file)))


=============================================================================
